---------------------------- MODULE Spec2Model ----------------------------
(***************************************************************************)
(* A model of src/main.py, the dashboard script that loads per-school     *)
(* environment logs (csv files) and growth sheets (one xlsx workbook),    *)
(* reconciles                                                             *)
(* the school keys and aggregates them.                                   *)
(*                                                                         *)
(* Representation.                                                         *)
(*  - A text string (file stem, sheet name, school key) is a sequence of  *)
(*    Unicode code points; 97 = a, 98 = b, 95 = _, 225 = a-acute          *)
(*    (precomposed), 769 = combining acute accent.  Python compares and   *)
(*    sorts str values code point by code point.                          *)
(*  - A float is a reduced fraction <<num, den>>; <<0, 0>> is NaN.  All   *)
(*    cell values of the model are small integers, on which the float64   *)
(*    sums and quotients pandas computes are exact images of the          *)
(*    fractions, so equality and order of fractions are those of the      *)
(*    floats.                                                              *)
(*  - A csv file keeps its column set and its ec cells; the cells of the  *)
(*    temperature, humidity and ph columns are not kept, only whether     *)
(*    the column is there.  A sheet keeps its column set and its          *)
(*    fresh-weight cells.  Column names: "fresh_weight_g" is the sheet    *)
(*    column read at main.py:145, "leaf_count" the one at :240,           *)
(*    "shoot_length_mm" the one at :251.                                  *)
(*  - All stands for the selectbox option at main.py:101.                 *)
(***************************************************************************)
EXTENDS Integers, Sequences, FiniteSets, TLC

VARIABLES
    fs,               \* the data directory: [exists, files]
    cache_env,        \* st.cache_data memo of load_environment_data
    cache_growth,     \* st.cache_data memo of load_growth_data
    widget,           \* the session's stored value of the selectbox
    pc,               \* position of the script run
    error,            \* why the run halted, "none" otherwise
    env_data,         \* main.py:78
    growth_data,      \* main.py:79
    common_schools,   \* main.py:88
    warning,          \* the schools named by st.warning at main.py:96
    schools,          \* main.py:101
    selected_school,  \* main.py:102
    summary,          \* main.py:121-135
    growth_all,       \* main.py:141-143
    optimal_ec,       \* main.py:145
    avg_env,          \* main.py:159-170
    ec_avg,           \* main.py:220
    rendered,         \* the tables and charts drawn by this run, in order
    first             \* history: the results of the session's first completed run

vars == <<fs, cache_env, cache_growth, widget, pc, error, env_data, growth_data,
          common_schools, warning, schools, selected_school, summary, growth_all,
          optimal_ec, avg_env, ec_avg, rendered, first>>

(***************************************************************************)
(* Bounds of the explored inputs.                                          *)
(***************************************************************************)
MaxEnvFiles == 2
MaxSheets == 2

(***************************************************************************)
(* Text.                                                                   *)
(***************************************************************************)
Underscore == 95

All == <<51204, 52404>>

Range(s) == { s[i] : i \in 1..Len(s) }

\* unicodedata.normalize("NFC", name): a followed by the combining acute
\* accent composes to the precomposed a-acute; nothing else in the
\* alphabet of the model composes.
RECURSIVE normalize_name(_)
normalize_name(name) ==
    IF Len(name) = 0 THEN <<>>
    ELSE IF Len(name) >= 2 /\ name[1] = 97 /\ name[2] = 769
         THEN <<225>> \o normalize_name(SubSeq(name, 3, Len(name)))
         ELSE <<name[1]>> \o normalize_name(Tail(name))

\* str.split("_")[0]: the text before the first underscore, all of it when
\* there is none.
RECURSIVE SplitFirst(_)
SplitFirst(stem) ==
    IF Len(stem) = 0 \/ stem[1] = Underscore THEN <<>>
    ELSE <<stem[1]>> \o SplitFirst(Tail(stem))

\* str.lower() on the suffixes of the model.
Lower(suffix) ==
    CASE suffix = ".CSV" -> ".csv"
      [] suffix = ".XLSX" -> ".xlsx"
      [] OTHER -> suffix

\* Python's str ordering: lexicographic on code points, a proper prefix first.
RECURSIVE StrLess(_, _)
StrLess(a, b) ==
    IF Len(b) = 0 THEN FALSE
    ELSE IF Len(a) = 0 THEN TRUE
    ELSE IF a[1] # b[1] THEN a[1] < b[1]
    ELSE StrLess(Tail(a), Tail(b))

SortedDescending(S) ==
    LET RECURSIVE Build(_)
        Build(T) == IF T = {} THEN <<>>
                    ELSE LET m == CHOOSE x \in T : \A y \in T \ {x} : StrLess(y, x)
                         IN <<m>> \o Build(T \ {m})
    IN Build(S)

\* sorted(set): ascending.
sorted(S) ==
    LET RECURSIVE Build(_)
        Build(T) == IF T = {} THEN <<>>
                    ELSE LET m == CHOOSE x \in T : \A y \in T \ {x} : StrLess(x, y)
                         IN <<m>> \o Build(T \ {m})
    IN Build(S)

(***************************************************************************)
(* Floats.                                                                 *)
(***************************************************************************)
NaN == <<0, 0>>

IsNaN(x) == x[2] = 0

Cell(v) == <<v, 1>>

RECURSIVE Gcd(_, _)
Gcd(a, b) == IF b = 0 THEN a ELSE Gcd(b, a % b)

Frac(s, n) == IF n = 0 THEN NaN ELSE LET g == Gcd(s, n) IN <<s \div g, n \div g>>

\* x < y on floats; false when either is NaN.
FLess(x, y) == ~IsNaN(x) /\ ~IsNaN(y) /\ x[1] * y[2] < y[1] * x[2]

RECURSIVE SumCells(_)
SumCells(cells) ==
    IF Len(cells) = 0 THEN 0
    ELSE (IF IsNaN(cells[1]) THEN 0 ELSE cells[1][1]) + SumCells(Tail(cells))

CountCells(cells) == Cardinality({ i \in 1..Len(cells) : ~IsNaN(cells[i]) })

\* Series.mean(): the mean of the cells that are not NaN; NaN when there
\* is none.
Mean(cells) == Frac(SumCells(cells), CountCells(cells))

\* round(x, 2), in hundredths (NaN stays NaN).  No mean of the model lies
\* halfway between two hundredths.
Round2(x) == IF IsNaN(x) THEN NaN
             ELSE Frac((200 * x[1] + x[2]) \div (2 * x[2]), 100)

(***************************************************************************)
(* The data directory.  A file is [stem, suffix, cols, ok, cells, sheets]: *)
(* for a csv file, cols are its columns, ok says that every cell of its   *)
(* time column parses as a timestamp, cells are its ec column; for a      *)
(* workbook, ok says that it opens, sheets are its sheets in workbook     *)
(* order, each [name, cols, cells] with cells its fresh-weight column.    *)
(***************************************************************************)
EnvCols == {"time", "temperature", "humidity", "ph", "ec"}

GrowthCols == {"fresh_weight_g", "leaf_count", "shoot_length_mm"}

Csv(stem, suffix, cols, ok, cells) ==
    [stem |-> stem, suffix |-> suffix, cols |-> cols, ok |-> ok,
     cells |-> cells, sheets |-> <<>>]

Workbook(ok, sheets) ==
    [stem |-> <<103>>, suffix |-> ".xlsx", cols |-> {}, ok |-> ok,
     cells |-> <<>>, sheets |-> sheets]

Sheet(name, cols, cells) == [name |-> name, cols |-> cols, cells |-> cells]

\* Sequences of at most n distinct elements of S.
InjSeqs(S, n) ==
    UNION { { s \in [1..k -> S] : \A i, j \in 1..k : i # j => s[i] # s[j] } : k \in 0..n }

\* Family 1: the names vary.  a_1.csv, a.CSV (the same school, another
\* suffix case), b_x.csv, a+accent_2.csv (decomposed), b.txt (not a csv);
\* sheets a, b, a-acute precomposed and a+accent decomposed.
FileA1 == Csv(<<97, 95, 49>>, ".csv", EnvCols, TRUE, <<Cell(1), Cell(1), Cell(2)>>)

FileACaps == Csv(<<97>>, ".CSV", EnvCols, TRUE, <<Cell(3)>>)

FileB == Csv(<<98, 95, 120>>, ".csv", EnvCols, TRUE, <<Cell(2), Cell(2)>>)

FileAcute == Csv(<<97, 769, 95, 50>>, ".csv", EnvCols, TRUE, <<Cell(1)>>)

FileTxt == Csv(<<98>>, ".txt", EnvCols, TRUE, <<Cell(5)>>)

NamedCsvs == { FileA1, FileACaps, FileB, FileAcute, FileTxt }

SheetA == Sheet(<<97>>, GrowthCols, <<Cell(10), Cell(12)>>)

SheetB == Sheet(<<98>>, GrowthCols, <<Cell(20), Cell(22)>>)

SheetAcute == Sheet(<<225>>, GrowthCols, <<Cell(11)>>)

SheetAcuteDecomposed == Sheet(<<97, 769>>, GrowthCols, <<Cell(30)>>)

NamedSheets == { SheetA, SheetB, SheetAcute, SheetAcuteDecomposed }

NamedDirs ==
    { [exists |-> TRUE, files |-> csvs \o wb] :
        csvs \in InjSeqs(NamedCsvs, MaxEnvFiles),
        wb \in {<<>>} \cup { <<Workbook(TRUE, sh)>> : sh \in InjSeqs(NamedSheets, MaxSheets) } }

\* Family 2: the cells vary, for the schools a and b.
EcColumns ==
    { <<>>, <<Cell(1)>>, <<Cell(2)>>, <<Cell(1), Cell(2)>>, <<Cell(1), Cell(1), Cell(2)>> }

WeightColumns ==
    { <<>>, <<Cell(1)>>, <<Cell(2)>>, <<Cell(1), Cell(3)>>, <<Cell(2), Cell(2)>>, <<NaN>> }

CellDirs ==
    { [exists |-> TRUE,
       files |-> << Csv(<<97, 95, 49>>, ".csv", EnvCols, TRUE, ea),
                    Workbook(TRUE, << Sheet(<<97>>, GrowthCols, wa),
                                      Sheet(<<98>>, GrowthCols, wb) >>),
                    Csv(<<98, 95, 120>>, ".csv", EnvCols, TRUE, eb) >>] :
        ea \in EcColumns, eb \in EcColumns, wa \in WeightColumns, wb \in WeightColumns }

\* Family 3: columns are missing or malformed.
FaultyCsvs ==
    { Csv(<<97, 95, 49>>, ".csv", EnvCols \ missing, ok, <<Cell(1)>>) :
        missing \in { {}, {"time"}, {"ec"}, {"temperature"}, {"humidity"}, {"ph"} },
        ok \in BOOLEAN }

FaultySheets ==
    { <<Sheet(<<97>>, GrowthCols \ ma, <<Cell(1)>>), Sheet(<<98>>, GrowthCols \ mb, cb)>> :
        ma \in { {}, {"fresh_weight_g"}, {"leaf_count"}, {"shoot_length_mm"} },
        mb \in { {}, {"fresh_weight_g"} },
        cb \in { <<>>, <<Cell(2)>> } }

FaultyDirs ==
    { [exists |-> TRUE,
       files |-> << csv, Csv(<<98, 95, 120>>, ".csv", EnvCols, TRUE, <<Cell(2)>>),
                    Workbook(wok, sh) >>] :
        csv \in FaultyCsvs, sh \in FaultySheets, wok \in BOOLEAN }

NoDir == [exists |-> FALSE, files |-> <<>>]

Dirs == NamedDirs \cup CellDirs \cup FaultyDirs \cup {NoDir}

\* The directories between which the files change in SpecReload.
ReloadDirs ==
    { [exists |-> TRUE, files |-> csvs \o wb] :
        csvs \in { <<>>, <<FileA1>>, <<FileACaps>>, <<FileA1, FileB>>,
                   <<Csv(<<97, 95, 49>>, ".csv", EnvCols, FALSE, <<Cell(1)>>)>> },
        wb \in { <<>>, <<Workbook(TRUE, <<SheetA>>)>>, <<Workbook(TRUE, <<SheetA, SheetB>>)>>,
                 <<Workbook(FALSE, <<SheetA>>)>> } }
      \cup {NoDir}

(***************************************************************************)
(* The loaders (main.py:37-66).  Each returns [ok, val]: ok is FALSE when *)
(* the loader raised, val is the mapping it returned.                     *)
(***************************************************************************)
Empty == [k \in {} |-> {}]

Put(map, key, val) == [k \in DOMAIN map \cup {key} |-> IF k = key THEN val ELSE map[k]]

PutIfAbsent(map, key, val) == IF key \in DOMAIN map THEN map ELSE Put(map, key, val)

\* env_data[school] = df (main.py:45)
StoreEnv(map, key, val) == Put(map, key, val)

\* main.py:40-46: one dataframe per csv file, in enumeration order;
\* pd.to_datetime raises on a missing or unparseable time column.
RECURSIVE EnvLoop(_, _)
EnvLoop(files, acc) ==
    IF Len(files) = 0 THEN [ok |-> TRUE, val |-> acc]
    ELSE LET f == files[1] IN
         IF Lower(f.suffix) = ".csv"
         THEN IF "time" \in f.cols /\ f.ok
              THEN EnvLoop(Tail(files),
                           StoreEnv(acc, normalize_name(SplitFirst(f.stem)),
                                    [cols |-> f.cols, cells |-> f.cells]))
              ELSE [ok |-> FALSE, val |-> Empty]
         ELSE EnvLoop(Tail(files), acc)

load_environment_data(dir) == EnvLoop(dir.files, Empty)

\* main.py:51-54: the first workbook in enumeration order.
RECURSIVE FirstXlsx(_)
FirstXlsx(files) ==
    IF Len(files) = 0 THEN <<>>
    ELSE IF Lower(files[1].suffix) = ".xlsx" THEN <<files[1]>>
    ELSE FirstXlsx(Tail(files))

\* main.py:63-64: the rows of one sheet, each tagged with the school; a
\* row of a sheet without the fresh-weight column has no such cell (NaN
\* once frames are concatenated).
TagRows(school, sh) ==
    [cols |-> sh.cols \cup {"school"},
     rows |-> [i \in 1..Len(sh.cells) |->
                 [school |-> school,
                  w |-> IF "fresh_weight_g" \in sh.cols THEN sh.cells[i] ELSE NaN]]]

RECURSIVE SheetLoop(_, _)
SheetLoop(sheets, acc) ==
    IF Len(sheets) = 0 THEN acc
    ELSE LET school == normalize_name(sheets[1].name) IN
         SheetLoop(Tail(sheets), Put(acc, school, TagRows(school, sheets[1])))

load_growth_data(dir) ==
    LET x == FirstXlsx(dir.files) IN
    IF Len(x) = 0 THEN [ok |-> TRUE, val |-> Empty]
    ELSE IF ~x[1].ok THEN [ok |-> FALSE, val |-> Empty]
    ELSE [ok |-> TRUE, val |-> SheetLoop(x[1].sheets, Empty)]

(***************************************************************************)
(* Reconciliation (main.py:88-96).                                        *)
(***************************************************************************)
\* A mutant of CommonSchools: the keys in descending order.
CommonSchoolsDescending(env, growth) == SortedDescending(DOMAIN env \cap DOMAIN growth)

\* main.py:88
CommonSchools(env, growth) == sorted(DOMAIN env \cap DOMAIN growth)

\* A mutant of MissingEnv: every growth school.
MissingEnvAll(env, growth) == DOMAIN growth

\* main.py:94
MissingEnv(env, growth) == DOMAIN growth \ DOMAIN env

(***************************************************************************)
(* Aggregation (main.py:121-145, 159-170, 220).                           *)
(***************************************************************************)
\* main.py:124-133: one entry per common school; df["ec"] raises KeyError
\* on a frame without the column.  [ok, val]: val holds the entries
\* appended before the error.
RECURSIVE SummaryLoop(_, _, _, _)
SummaryLoop(common, env, growth, acc) ==
    IF Len(common) = 0 THEN [ok |-> TRUE, val |-> acc]
    ELSE LET school == common[1] IN
         IF "ec" \notin env[school].cols THEN [ok |-> FALSE, val |-> acc]
         ELSE SummaryLoop(Tail(common), env, growth,
                          Append(acc, [school |-> school,
                                       ec_target |-> Round2(Mean(env[school].cells)),
                                       count |-> Len(growth[school].rows)]))

\* A mutant of BuildSummary: only the selected school is summarised.
BuildSummarySelected(common, env, growth) ==
    SummaryLoop(IF selected_school = All THEN common ELSE <<selected_school>>,
                env, growth, <<>>)

BuildSummary(common, env, growth) == SummaryLoop(common, env, growth, <<>>)

\* main.py:141: pd.concat of the growth frames, in the order of common_schools.
RECURSIVE ConcatRows(_, _)
ConcatRows(common, growth) ==
    IF Len(common) = 0 THEN <<>>
    ELSE growth[common[1]].rows \o ConcatRows(Tail(common), growth)

\* main.py:142
EcMap(common, env) == [s \in Range(common) |-> Mean(env[s].cells)]

\* A mutant of JoinGrowthWithEc: every row gets the first school's mean.
JoinGrowthWithFirstEc(common, env, growth) ==
    LET rows == ConcatRows(common, growth)
        ec_map == EcMap(common, env)
    IN [i \in 1..Len(rows) |->
          [school |-> rows[i].school, w |-> rows[i].w, EC |-> ec_map[common[1]]]]

\* A mutant of JoinGrowthWithEc: schools without rows get a placeholder row.
JoinGrowthPadded(common, env, growth) ==
    LET RECURSIVE Pad(_)
        Pad(c) == IF Len(c) = 0 THEN <<>>
                  ELSE (IF Len(growth[c[1]].rows) = 0
                        THEN <<[school |-> c[1], w |-> NaN]>>
                        ELSE growth[c[1]].rows) \o Pad(Tail(c))
        rows == Pad(common)
        ec_map == EcMap(common, env)
    IN [i \in 1..Len(rows) |->
          [school |-> rows[i].school, w |-> rows[i].w, EC |-> ec_map[rows[i].school]]]

\* main.py:141-143: the joined growth table.
JoinGrowthWithEc(common, env, growth) ==
    LET rows == ConcatRows(common, growth)
        ec_map == EcMap(common, env)
    IN [i \in 1..Len(rows) |->
          [school |-> rows[i].school, w |-> rows[i].w, EC |-> ec_map[rows[i].school]]]

\* The columns of the concatenated growth frame: the union of the frames'.
GrowthAllCols(common, growth) == UNION { growth[s].cols : s \in Range(common) }

\* groupby("EC")[fresh weight].mean(): one group per EC value that is not
\* NaN, in ascending order of EC, with the mean of its rows' weights.
GroupMeans(rows) ==
    LET keys == { rows[i].EC : i \in 1..Len(rows) } \ {NaN}
        GroupMean(k) ==
            LET InGroup(r) == r.EC = k
                g == SelectSeq(rows, InGroup)
            IN Mean([i \in 1..Len(g) |-> g[i].w])
        RECURSIVE Build(_)
        Build(K) == IF K = {} THEN <<>>
                    ELSE LET m == CHOOSE x \in K : \A y \in K \ {x} : FLess(x, y)
                         IN <<[EC |-> m, mean |-> GroupMean(m)]>> \o Build(K \ {m})
    IN Build(keys)

\* A mutant of ArgMax: the last maximum.
ArgMaxLast(series) ==
    LET RECURSIVE Scan(_, _)
        Scan(i, best) ==
            IF i > Len(series) THEN best
            ELSE IF IsNaN(series[i].mean) THEN Scan(i + 1, best)
            ELSE IF best = 0 \/ ~FLess(series[i].mean, series[best].mean)
                 THEN Scan(i + 1, i)
                 ELSE Scan(i + 1, best)
    IN Scan(1, 0)

\* The position idxmax reports: the first occurrence of the greatest
\* value that is not NaN; 0 when every value is NaN.
ArgMax(series) ==
    LET RECURSIVE Scan(_, _)
        Scan(i, best) ==
            IF i > Len(series) THEN best
            ELSE IF IsNaN(series[i].mean) THEN Scan(i + 1, best)
            ELSE IF best = 0 \/ FLess(series[best].mean, series[i].mean)
                 THEN Scan(i + 1, i)
                 ELSE Scan(i + 1, best)
    IN Scan(1, 0)

\* main.py:145: the outcomes of groupby(...).mean().idxmax().  KeyError
\* when no frame has the fresh-weight column; ValueError on an empty
\* series; on a series of NaN only, NaN (pandas before 3.0) or ValueError
\* (pandas 3.0): the script pins no version.
OptimalEcOutcomes(rows, cols) ==
    LET series == GroupMeans(rows) IN
    IF "fresh_weight_g" \notin cols THEN { [status |-> "KeyError", val |-> NaN] }
    ELSE IF Len(series) = 0 THEN { [status |-> "ValueError", val |-> NaN] }
    ELSE IF ArgMax(series) = 0
         THEN { [status |-> "ok", val |-> NaN], [status |-> "ValueError", val |-> NaN] }
         ELSE { [status |-> "ok", val |-> series[ArgMax(series)].EC] }

\* main.py:160-168: one entry per common school, with the means of the
\* frame's temperature, humidity, ph and ec columns (the ec mean is kept);
\* df[column] raises KeyError on a frame without the column.  [ok, val]:
\* val holds the entries appended before the error.
RECURSIVE AvgEnvLoop(_, _, _)
AvgEnvLoop(common, env, acc) ==
    IF Len(common) = 0 THEN [ok |-> TRUE, val |-> acc]
    ELSE LET s == common[1] IN
         IF ~({"temperature", "humidity", "ph", "ec"} \subseteq env[s].cols)
         THEN [ok |-> FALSE, val |-> acc]
         ELSE AvgEnvLoop(Tail(common), env,
                         Append(acc, [school |-> s, EC |-> Mean(env[s].cells)]))

BuildAvgEnv(common, env) == AvgEnvLoop(common, env, <<>>)

\* pd.concat(env_data[s][col] for s in common_schools) (main.py:138-139):
\* KeyError unless every common school's frame has the column.
AllHave(common, env, col) == \A s \in Range(common) : col \in env[s].cols

(***************************************************************************)
(* The script run, block by block, and the session around it.             *)
(***************************************************************************)
NoMemo == [hit |-> FALSE, val |-> Empty]

NoFirst ==
    [set |-> FALSE, selected |-> All, env_data |-> Empty, growth_data |-> Empty,
     common_schools |-> <<>>, schools |-> <<>>, summary |-> <<>>, avg_env |-> <<>>,
     growth_all |-> <<>>, ec_avg |-> <<>>, optimal_ec |-> NaN]

\* The names of a fresh run of the script: nothing is assigned yet.
FreshRun ==
    /\ pc' = "start"
    /\ error' = "none"
    /\ env_data' = Empty
    /\ growth_data' = Empty
    /\ common_schools' = <<>>
    /\ warning' = {}
    /\ schools' = <<>>
    /\ selected_school' = All
    /\ summary' = <<>>
    /\ growth_all' = <<>>
    /\ optimal_ec' = NaN
    /\ avg_env' = <<>>
    /\ ec_avg' = <<>>
    /\ rendered' = <<>>

InitScript ==
    /\ pc = "start"
    /\ error = "none"
    /\ env_data = Empty
    /\ growth_data = Empty
    /\ common_schools = <<>>
    /\ warning = {}
    /\ schools = <<>>
    /\ selected_school = All
    /\ summary = <<>>
    /\ growth_all = <<>>
    /\ optimal_ec = NaN
    /\ avg_env = <<>>
    /\ ec_avg = <<>>
    /\ rendered = <<>>
    /\ cache_env = NoMemo
    /\ cache_growth = NoMemo
    /\ widget = All
    /\ first = NoFirst

Init == fs \in Dirs /\ InitScript

\* st.stop() after st.error, or an uncaught exception: the run ends and
\* what was drawn stays on the page.
Halt(why) == pc' = "halted" /\ error' = why

session == <<fs, cache_env, cache_growth, widget, first>>

\* main.py:73-76
Start ==
    /\ pc = "start"
    /\ IF fs.exists THEN pc' = "load_env" /\ error' = error
                    ELSE Halt("MissingDirectory")
    /\ UNCHANGED <<session, env_data, growth_data, common_schools, warning, schools,
                   selected_school, summary, growth_all, optimal_ec, avg_env, ec_avg,
                   rendered>>

\* @st.cache_data (main.py:37, :48): the stored value when there is one,
\* the loader's result otherwise.  The key is the function and its
\* argument, Path("data"); the directory's contents are not part of it.
Memoized(memo, result) == IF memo.hit THEN [ok |-> TRUE, val |-> memo.val] ELSE result

\* What st.cache_data holds after the call: a result is stored, an
\* exception is not.
Remember(memo, result) ==
    IF ~memo.hit /\ result.ok THEN [hit |-> TRUE, val |-> result.val] ELSE memo

\* main.py:78
LoadEnvironment ==
    /\ pc = "load_env"
    /\ LET r == Memoized(cache_env, load_environment_data(fs)) IN
       /\ cache_env' = Remember(cache_env, r)
       /\ IF r.ok THEN env_data' = r.val /\ pc' = "load_growth" /\ error' = error
                  ELSE env_data' = env_data /\ Halt("DataFormat")
    /\ UNCHANGED <<fs, cache_growth, widget, first, growth_data, common_schools, warning,
                   schools, selected_school, summary, growth_all, optimal_ec, avg_env,
                   ec_avg, rendered>>

\* main.py:79
LoadGrowth ==
    /\ pc = "load_growth"
    /\ LET r == Memoized(cache_growth, load_growth_data(fs)) IN
       /\ cache_growth' = Remember(cache_growth, r)
       /\ IF r.ok THEN growth_data' = r.val /\ pc' = "check_loaded" /\ error' = error
                  ELSE growth_data' = growth_data /\ Halt("DataFormat")
    /\ UNCHANGED <<fs, cache_env, widget, first, env_data, common_schools, warning,
                   schools, selected_school, summary, growth_all, optimal_ec, avg_env,
                   ec_avg, rendered>>

\* main.py:81-83
CheckLoaded ==
    /\ pc = "check_loaded"
    /\ IF DOMAIN env_data = {} \/ DOMAIN growth_data = {}
       THEN Halt("EmptyDataset")
       ELSE pc' = "reconcile" /\ error' = error
    /\ UNCHANGED <<session, env_data, growth_data, common_schools, warning, schools,
                   selected_school, summary, growth_all, optimal_ec, avg_env, ec_avg,
                   rendered>>

\* main.py:88-96
Reconcile ==
    /\ pc = "reconcile"
    /\ common_schools' = CommonSchools(env_data, growth_data)
    /\ IF Len(common_schools') = 0
       THEN Halt("NoOverlap") /\ warning' = warning
       ELSE /\ warning' = MissingEnv(env_data, growth_data)
            /\ pc' = "sidebar"
            /\ error' = error
    /\ UNCHANGED <<session, env_data, growth_data, schools, selected_school, summary,
                   growth_all, optimal_ec, avg_env, ec_avg, rendered>>

\* main.py:101-102: the selectbox returns the session's value when it is
\* one of the options, the first option otherwise.
Sidebar ==
    /\ pc = "sidebar"
    /\ schools' = <<All>> \o common_schools
    /\ selected_school' = IF widget \in Range(schools') THEN widget ELSE schools'[1]
    /\ widget' = selected_school'
    /\ pc' = "tab1_summary"
    /\ UNCHANGED <<fs, cache_env, cache_growth, first, error, env_data, growth_data,
                   common_schools, warning, summary, growth_all, optimal_ec, avg_env,
                   ec_avg, rendered>>

\* main.py:113-136
Tab1Summary ==
    /\ pc = "tab1_summary"
    /\ LET r == BuildSummary(common_schools, env_data, growth_data) IN
       /\ summary' = r.val
       /\ IF r.ok
          THEN /\ rendered' = Append(rendered, "summary_table")
               /\ pc' = "tab1_metrics"
               /\ error' = error
          ELSE Halt("KeyError") /\ rendered' = rendered
    /\ UNCHANGED <<session, env_data, growth_data, common_schools, warning, schools,
                   selected_school, growth_all, optimal_ec, avg_env, ec_avg>>

\* main.py:138-151
Tab1Metrics ==
    /\ pc = "tab1_metrics"
    /\ IF ~AllHave(common_schools, env_data, "temperature")
          \/ ~AllHave(common_schools, env_data, "humidity")
       THEN /\ Halt("KeyError")
            /\ UNCHANGED <<growth_all, optimal_ec, rendered>>
       ELSE /\ growth_all' = JoinGrowthWithEc(common_schools, env_data, growth_data)
            /\ \E o \in OptimalEcOutcomes(growth_all',
                                          GrowthAllCols(common_schools, growth_data)) :
                 /\ optimal_ec' = o.val
                 /\ IF o.status = "ok"
                    THEN /\ rendered' = Append(rendered, "metrics")
                         /\ pc' = "tab2"
                         /\ error' = error
                    ELSE Halt(o.status) /\ rendered' = rendered
    /\ UNCHANGED <<session, env_data, growth_data, common_schools, warning, schools,
                   selected_school, summary, avg_env, ec_avg>>

\* main.py:156-212
Tab2 ==
    /\ pc = "tab2"
    /\ LET r == BuildAvgEnv(common_schools, env_data) IN
       /\ avg_env' = r.val
       /\ IF r.ok
          THEN /\ rendered' = rendered \o <<"env_chart">>
                                \o (IF selected_school # All THEN <<"ts_chart">> ELSE <<>>)
                                \o <<"env_raw">>
               /\ pc' = "tab3"
               /\ error' = error
          ELSE Halt("KeyError") /\ rendered' = rendered
    /\ UNCHANGED <<session, env_data, growth_data, common_schools, warning, schools,
                   selected_school, summary, growth_all, optimal_ec, ec_avg>>

Results ==
    [set |-> TRUE, selected |-> selected_school, env_data |-> env_data,
     growth_data |-> growth_data, common_schools |-> common_schools,
     schools |-> schools, summary |-> summary, avg_env |-> avg_env,
     growth_all |-> growth_all, ec_avg |-> ec_avg',
     optimal_ec |-> optimal_ec]

\* main.py:217-270: px.scatter raises ValueError when the frame lacks the
\* column named for its x axis.
Tab3 ==
    /\ pc = "tab3"
    /\ ec_avg' = GroupMeans(growth_all)
    /\ LET cols == GrowthAllCols(common_schools, growth_data) IN
       IF "leaf_count" \notin cols
       THEN /\ Halt("ValueError")
            /\ rendered' = rendered \o <<"ec_chart", "box_chart">>
            /\ first' = first
       ELSE IF "shoot_length_mm" \notin cols
       THEN /\ Halt("ValueError")
            /\ rendered' = rendered \o <<"ec_chart", "box_chart", "scatter_leaf">>
            /\ first' = first
       ELSE /\ rendered' = rendered \o <<"ec_chart", "box_chart", "scatter_leaf",
                                         "scatter_length", "growth_raw">>
            /\ pc' = "done"
            /\ error' = error
            /\ first' = IF first.set THEN first ELSE Results
    /\ UNCHANGED <<fs, cache_env, cache_growth, widget, env_data, growth_data,
                   common_schools, warning, schools, selected_school, summary,
                   growth_all, optimal_ec, avg_env>>

Idle == pc \in {"done", "halted"}

\* The user picks another option of the selectbox drawn by the last run:
\* the script runs again.
Select ==
    /\ Idle
    /\ \E s \in Range(schools) : s # selected_school /\ widget' = s
    /\ FreshRun
    /\ UNCHANGED <<fs, cache_env, cache_growth, first>>

\* The user reruns the script.
Rerun ==
    /\ Idle
    /\ FreshRun
    /\ UNCHANGED <<fs, cache_env, cache_growth, widget, first>>

\* The files of the data directory change while no run is in progress,
\* and the user reruns the script.
ChangeFiles ==
    /\ Idle
    /\ fs' \in ReloadDirs \ {fs}
    /\ FreshRun
    /\ UNCHANGED <<cache_env, cache_growth, widget, first>>

Run ==
    \/ Start
    \/ LoadEnvironment
    \/ LoadGrowth
    \/ CheckLoaded
    \/ Reconcile
    \/ Sidebar
    \/ Tab1Summary
    \/ Tab1Metrics
    \/ Tab2
    \/ Tab3

Next == Run \/ Select \/ Rerun

Spec == Init /\ [][Next]_vars

InitReload == fs \in ReloadDirs /\ InitScript

NextReload == Next \/ ChangeFiles

SpecReload == InitReload /\ [][NextReload]_vars

(***************************************************************************)
(* Positions of a run, readable from the state.                           *)
(***************************************************************************)
\* load_environment_data has returned to the script (main.py:78).
EnvLoaded ==
    \/ pc \in {"load_growth", "check_loaded", "reconcile", "sidebar", "tab1_summary",
               "tab1_metrics", "tab2", "tab3", "done"}
    \/ pc = "halted" /\ error \in {"EmptyDataset", "NoOverlap", "KeyError", "ValueError"}

\* main.py:88-96 has run: both loaders returned non-empty mappings.
Reconciled ==
    \/ pc \in {"sidebar", "tab1_summary", "tab1_metrics", "tab2", "tab3", "done"}
    \/ pc = "halted" /\ error \in {"NoOverlap", "KeyError", "ValueError"}

Drawn(item) == item \in Range(rendered)

EnvKeys == DOMAIN env_data

GrowthKeys == DOMAIN growth_data

Ascending(seq) == \A i, j \in 1..Len(seq) : i < j => StrLess(seq[i], seq[j])

\* The schools of a table, in order of first appearance.
RECURSIVE SchoolsOf(_)
SchoolsOf(table) ==
    IF Len(table) = 0 THEN <<>>
    ELSE LET rest == SchoolsOf(SubSeq(table, 1, Len(table) - 1))
             s == table[Len(table)].school
         IN IF s \in Range(rest) THEN rest ELSE Append(rest, s)

\* The fresh-weight cells of the rows of a school in the joined table.
WeightsOf(table, s) ==
    LET Of(r) == r.school = s
        rows == SelectSeq(table, Of)
    IN [i \in 1..Len(rows) |-> rows[i].w]

\* The groups whose mean fresh weight no group exceeds.
Tops(series) ==
    { i \in 1..Len(series) :
        /\ ~IsNaN(series[i].mean)
        /\ \A j \in 1..Len(series) : ~FLess(series[i].mean, series[j].mean) }

(***************************************************************************)
(* C1.  Once reconciled, common_schools holds exactly the keys that are   *)
(* in both loaders' mappings, each once, in ascending string order.       *)
(***************************************************************************)
C1_CommonSchoolsSortedIntersection ==
    Reconciled =>
        /\ Range(common_schools) = EnvKeys \cap GrowthKeys
        /\ Ascending(common_schools)

\* a+accent_2.csv and b_x.csv with sheets b and a-acute: the decomposed
\* stem sorts before b, its key after.
C1_Witness ==
    /\ Reconciled
    /\ common_schools = << <<98>>, <<225>> >>
    /\ \E i \in 1..Len(fs.files) : SplitFirst(fs.files[i].stem) = <<97, 769>>

(***************************************************************************)
(* C2.  A run that halts because the directory is absent, a loader        *)
(* returned nothing, no school is common, a loader raised on malformed    *)
(* data, or a required column is missing (KeyError) has drawn no table    *)
(* and no chart.                                                           *)
(***************************************************************************)
C2_NoOutputBeforeFatal ==
    pc = "halted"
      /\ error \in {"MissingDirectory", "EmptyDataset", "NoOverlap", "DataFormat", "KeyError"}
    => rendered = <<>>

(***************************************************************************)
(* C3, as claimed.  Whenever both loaders return non-empty mappings and   *)
(* some growth school has no environment file, the warning names exactly  *)
(* those schools.                                                          *)
(***************************************************************************)
C3_WarningWheneverMissing ==
    Reconciled /\ GrowthKeys \ EnvKeys # {} => warning = GrowthKeys \ EnvKeys

(***************************************************************************)
(* C3, amended.  When the key sets intersect, the warning names exactly   *)
(* the growth schools without environment data (none when there is no     *)
(* such school) and the run goes on; the reconciliation halts the run     *)
(* only when the intersection is empty, and then without a warning; no    *)
(* school of the warning is in common_schools or in a table.              *)
(***************************************************************************)
C3_WarningWhenOverlap ==
    Reconciled =>
        /\ EnvKeys \cap GrowthKeys # {} =>
              warning = GrowthKeys \ EnvKeys /\ error # "NoOverlap"
        /\ EnvKeys \cap GrowthKeys = {} =>
              warning = {} /\ pc = "halted" /\ error = "NoOverlap"
        /\ \A s \in GrowthKeys \ EnvKeys :
              /\ s \notin Range(common_schools)
              /\ s \notin Range(SchoolsOf(summary))
              /\ s \notin Range(SchoolsOf(avg_env))
              /\ s \notin Range(SchoolsOf(growth_all))

C3_Witness ==
    /\ pc = "done"
    /\ warning # {}
    /\ warning = GrowthKeys \ EnvKeys
    /\ growth_all # <<>>

(***************************************************************************)
(* C4.  Once optimal_ec is assigned and shown, it is the EC of a group of *)
(* the EC-grouped table of the joined growth table, and no group has a    *)
(* strictly greater mean fresh weight.                                     *)
(***************************************************************************)
C4_OptimalEcIsAMaximalGroup ==
    Drawn("metrics") =>
        LET series == GroupMeans(growth_all) IN
        \E i \in 1..Len(series) :
            /\ series[i].EC = optimal_ec
            /\ \A j \in 1..Len(series) : ~FLess(series[i].mean, series[j].mean)

(***************************************************************************)
(* C5.  The joined growth table holds, for every common school, that      *)
(* school's growth rows in order, no row of another school, and every     *)
(* row's EC is the mean of the ec cells of its school's environment frame *)
(* (sum = EC * count; NaN when the frame has no ec cell).                 *)
(***************************************************************************)
C5_JoinedGrowthTable ==
    Drawn("metrics") =>
        /\ \A i \in 1..Len(growth_all) : growth_all[i].school \in Range(common_schools)
        /\ \A s \in Range(common_schools) :
              WeightsOf(growth_all, s) =
                  [i \in 1..Len(growth_data[s].rows) |-> growth_data[s].rows[i].w]
        /\ \A i \in 1..Len(growth_all) :
              LET cells == env_data[growth_all[i].school].cells
                  ec == growth_all[i].EC
              IN IF CountCells(cells) = 0 THEN IsNaN(ec)
                 ELSE ~IsNaN(ec) /\ ec[1] * CountCells(cells) = SumCells(cells) * ec[2]

\* The scenario of the specification: a with ec 1, 1, 2 and weights 10, 12;
\* b with ec 2, 2 and weights 20, 22.
C5_Witness ==
    /\ Drawn("metrics")
    /\ growth_all = << [school |-> <<97>>, w |-> Cell(10), EC |-> <<4, 3>>],
                       [school |-> <<97>>, w |-> Cell(12), EC |-> <<4, 3>>],
                       [school |-> <<98>>, w |-> Cell(20), EC |-> <<2, 1>>],
                       [school |-> <<98>>, w |-> Cell(22), EC |-> <<2, 1>>] >>
    /\ optimal_ec = <<2, 1>>

(***************************************************************************)
(* C6, as claimed.  The schools of the summary table, of the environment  *)
(* average table and of the joined growth table are exactly the common    *)
(* schools, in ascending order.                                            *)
(***************************************************************************)
C6_EveryTableHasEveryCommonSchool ==
    /\ Drawn("summary_table") => SchoolsOf(summary) = common_schools
    /\ Drawn("env_chart") => SchoolsOf(avg_env) = common_schools
    /\ Drawn("metrics") => SchoolsOf(growth_all) = common_schools
    /\ Reconciled => common_schools = sorted(EnvKeys \cap GrowthKeys)

(***************************************************************************)
(* C6, amended.  The schools of the summary table and of the environment  *)
(* average table are exactly the common schools, in ascending order; the  *)
(* schools of the joined growth table are the common schools that have at *)
(* least one growth row, in ascending order.                               *)
(***************************************************************************)
C6_TablesHaveCommonSchools ==
    LET HasRows(s) == Len(growth_data[s].rows) > 0 IN
    /\ Drawn("summary_table") => SchoolsOf(summary) = common_schools
    /\ Drawn("env_chart") => SchoolsOf(avg_env) = common_schools
    /\ Drawn("metrics") => SchoolsOf(growth_all) = SelectSeq(common_schools, HasRows)
    /\ Reconciled =>
          /\ Range(common_schools) = EnvKeys \cap GrowthKeys
          /\ Ascending(common_schools)

C6_Witness ==
    /\ pc = "done"
    /\ Len(common_schools) = 2
    /\ Len(growth_data[common_schools[1]].rows) = 0
    /\ SchoolsOf(growth_all) = <<common_schools[2]>>
    /\ SchoolsOf(summary) = common_schools

(***************************************************************************)
(* The csv files of the directory that resolve to a school key, in        *)
(* enumeration order.                                                      *)
(***************************************************************************)
CsvFilesOf(dir, key) ==
    LET Is(f) == Lower(f.suffix) = ".csv" /\ normalize_name(SplitFirst(f.stem)) = key
    IN SelectSeq(dir.files, Is)

RECURSIVE ConcatCells(_)
ConcatCells(files) ==
    IF Len(files) = 0 THEN <<>> ELSE files[1].cells \o ConcatCells(Tail(files))

(***************************************************************************)
(* C7, as claimed.  The environment loader's sequence for a key holds the *)
(* records of every csv file that resolves to the key, a later file's     *)
(* after an earlier file's.                                                *)
(***************************************************************************)
C7_DuplicateFilesAppend ==
    EnvLoaded =>
        \A k \in EnvKeys : env_data[k].cells = ConcatCells(CsvFilesOf(fs, k))

(***************************************************************************)
(* C7, amended.  The environment loader's mapping has one key per school  *)
(* key the csv files resolve to, and its sequence for a key holds exactly *)
(* the records of the last-enumerated file that resolves to the key: the  *)
(* records of an earlier file with the same key are replaced.              *)
(***************************************************************************)
C7_DuplicateFilesReplace ==
    EnvLoaded =>
        /\ \A k \in EnvKeys :
              LET files == CsvFilesOf(fs, k) IN
              Len(files) > 0 /\ env_data[k].cells = files[Len(files)].cells
        /\ \A i \in 1..Len(fs.files) :
              Lower(fs.files[i].suffix) = ".csv" =>
                  normalize_name(SplitFirst(fs.files[i].stem)) \in EnvKeys

C7_Witness ==
    /\ EnvLoaded
    /\ \E k \in EnvKeys :
          LET files == CsvFilesOf(fs, k) IN
          /\ Len(files) = 2
          /\ files[1].suffix = ".CSV"
          /\ files[1].cells # files[2].cells
          /\ env_data[k].cells = files[2].cells

(***************************************************************************)
(* C8.  What a completed run shows is what the loaders, run without the   *)
(* memo on the directory as it is at that run, would give: the common     *)
(* schools, the joined growth table, the environment averages and the     *)
(* optimal EC.                                                             *)
(***************************************************************************)
C8_MemoDoesNotChangeResults ==
    pc = "done" =>
        LET e == load_environment_data(fs)
            g == load_growth_data(fs)
            c == CommonSchools(e.val, g.val)
        IN /\ fs.exists /\ e.ok /\ g.ok
           /\ common_schools = c
           /\ summary = BuildSummary(c, e.val, g.val).val
           /\ avg_env = BuildAvgEnv(c, e.val).val
           /\ growth_all = JoinGrowthWithEc(c, e.val, g.val)
           /\ ec_avg = GroupMeans(growth_all)

(***************************************************************************)
(* C9.  When groups of the EC-grouped table share the greatest mean fresh *)
(* weight, optimal_ec is the smallest EC among them.                       *)
(***************************************************************************)
C9_TieBreakSmallestEc ==
    Drawn("metrics") =>
        LET series == GroupMeans(growth_all) IN
        Tops(series) # {} =>
            /\ \E i \in Tops(series) : series[i].EC = optimal_ec
            /\ \A j \in Tops(series) : ~FLess(series[j].EC, optimal_ec)

\* Two groups tie, and the rows of the greater EC come first in the joined
\* table (school a has the greater mean EC).
C9_Witness ==
    /\ Drawn("metrics")
    /\ Cardinality(Tops(GroupMeans(growth_all))) = 2
    /\ FLess(optimal_ec, growth_all[1].EC)
    /\ \E i \in 1..Len(growth_all) : growth_all[i].EC = optimal_ec

=============================================================================
